---- MODULE Spec2Model ----
(***************************************************************************)
(* Document field-detection service: the processor / worker that claims a  *)
(* document, runs the detection pipeline and persists FieldRegions         *)
(* (workers/hybrid_processor.py, workers/ocr/main.py, routers/hybrid.py),  *)
(* the ensemble merger, the text-overlap filter and the pipeline           *)
(* orchestrator (workers/ensemble_merger.py, text_overlap_filter.py,       *)
(* hybrid_detection_pipeline.py, detection_models.py), the documents       *)
(* router's process endpoint (routers/documents.py) and the CommonForms    *)
(* jobs (routers/commonforms.py, workers/cf_worker.py).                    *)
(***************************************************************************)
EXTENDS Integers, Sequences, FiniteSets, TLC

\* ------------------------------------------------------------------------
\* Bounds
\* ------------------------------------------------------------------------
\* concurrent invocations on the one document
NumWorkers == 2
\* detections a pipeline run may return
MaxDet == 2

Workers == 1..NumWorkers

\* ------------------------------------------------------------------------
\* Program constants
\* ------------------------------------------------------------------------
\* app/models/document.py: class DocumentStatus
DocumentStatus ==
    {"imported", "processing", "ready", "filling", "filled", "failed"}

\* app/routers/hybrid.py:133, the statuses the endpoint lets through
Processable == {"imported", "ready", "failed"}

VARIABLES
    status,          \* documents.status, committed
    error_message,   \* documents.error_message, committed
    field_regions,   \* committed field_regions rows of the document
    pc,              \* position of each invocation
    kind,            \* "hybrid" (HybridProcessor) or "ocr" (process_ocr)
    force,           \* the force argument of the invocation
    tmp_exists,      \* the invocation's temporary file exists on disk
    detections,      \* number of detections the invocation's run returned
    err,             \* the step whose exception the invocation is handling
    result,          \* how the invocation ended
    mIn,             \* arguments of EnsembleMerger.merge
    mOut,            \* what merge returned or raised
    mPhase,          \* "input" before the call, "done" after it
    rIn,             \* arguments of EnsembleMerger._resolve_conflict
    rOut,            \* the detection _resolve_conflict returned
    rPhase,          \* "input" before the call, "done" after it
    fIn,             \* the filter's threshold, its fields and the PDF's text
    fOut,            \* the list filter_fields returned
    fPhase,          \* "input" before the call, "done" after it
    pPhase,          \* position of detect_fields_for_pdf
    pPdf,            \* the PDF: its text, and whether a vision detector is set
    pCalls,          \* what each detector call did
    pFields,         \* pdf_structure_fields, geometric_fields, vision_fields
    pMerges,         \* calls of ensemble_merger.merge so far
    pOut,            \* what detect_fields_for_pdf returned or raised
    bIn,             \* the coordinates two BBoxes are constructed from
    bOut,            \* what the constructors and the iou call gave
    bPhase,          \* "input", "built" after the constructors, "done"
    apiPc,           \* position of the documents router's process request
    queued,          \* an OCR task for the document is in the task queue
    jStatus,         \* _job_store[job_id]["status"]
    jReported,       \* the status the status endpoint returned last
    bgPc,            \* position of _process_commonforms_background
    cfPc,            \* position of the CommonForms worker's request
    cfResp,          \* the HTTP status the CommonForms worker answered with
    filled           \* documents.storage_key_filled is set

procVars == <<status, error_message, field_regions, pc, kind, force,
              tmp_exists, detections, err, result>>
mergeVars == <<mIn, mOut, mPhase>>
resolveVars == <<rIn, rOut, rPhase>>
filterVars == <<fIn, fOut, fPhase>>
pipeVars == <<pPhase, pPdf, pCalls, pFields, pMerges, pOut>>
bboxVars == <<bIn, bOut, bPhase>>
apiVars == <<apiPc, queued>>
jobVars == <<jStatus, jReported, bgPc, cfPc, cfResp, filled>>
\* BBox, the documents router and the CommonForms jobs
moreVars == <<bboxVars, apiVars, jobVars>>
\* everything outside the processor
restVars == <<mergeVars, resolveVars, filterVars, pipeVars, moreVars>>
vars == <<status, error_message, field_regions, pc, kind, force,
          tmp_exists, detections, err, result,
          mIn, mOut, mPhase, rIn, rOut, rPhase, fIn, fOut, fPhase,
          pPhase, pPdf, pCalls, pFields, pMerges, pOut,
          bIn, bOut, bPhase, apiPc, queued,
          jStatus, jReported, bgPc, cfPc, cfResp, filled>>

\* no BBox under construction
BBoxAtRest == bIn = <<>> /\ bOut = <<>> /\ bPhase = "off"

\* no request at the documents router, no task in the queue
ApiAtRest == apiPc = "off" /\ queued = FALSE

\* no CommonForms job in the job store
JobsAtRest ==
    /\ jStatus = "none" /\ jReported = "none"
    /\ bgPc = "off" /\ cfPc = "off" /\ cfResp = "none" /\ filled = FALSE

MoreAtRest == BBoxAtRest /\ ApiAtRest /\ JobsAtRest

\* ------------------------------------------------------------------------
\* Processor / worker
\* ------------------------------------------------------------------------

\* one FieldRegion row per detection of a run (_save_detections_to_db loop)
Rows(w) == {[run |-> w, det |-> i] : i \in 1..detections[w]}

\* the FieldRegions an earlier, finished run left behind (run 0)
PrevRows == {[run |-> 0, det |-> 1]}

\* steps that end in db.commit() ("check" only with force, after the delete)
CommitSteps == {"check", "claim", "save", "ready", "commit", "usage"}

\* steps inside the inner try whose finally unlinks the temporary file
InnerTry == {"pipeline", "pagecount", "save", "ready",
             "download", "extract", "commit", "usage"}

\* steps that call out of the process and may raise without touching the db
RaisingSteps == {"pipeline", "pagecount", "download", "extract"}

\* the finally left out: the file stays
FinallyUnlink_Skipped(w) == tmp_exists

\* finally: if os.path.exists(tmp_path): os.unlink(tmp_path)
FinallyUnlink(w) == [tmp_exists EXCEPT ![w] = FALSE]

Goto(w, label) == pc' = [pc EXCEPT ![w] = label]

Return(w, how) ==
    /\ pc' = [pc EXCEPT ![w] = "done"]
    /\ result' = [result EXCEPT ![w] = how]

\* raise at the end of the handler, through finally: db.close(): the
\* exception ends with the invocation
Raise(w) ==
    /\ Return(w, "raised")
    /\ err' = [err EXCEPT ![w] = "none"]

\* error_msg = f"{type(e).__name__}: {str(e)}": the text of a failed
\* commit's database error, or of the error a step raised
ErrorText(step) ==
    IF step \in CommitSteps THEN "database error" ELSE "step error"

\* documents the service can hold before an invocation arrives
InitDocument ==
    /\ status \in DocumentStatus \ {"processing"}
    /\ error_message = "none"
    /\ field_regions \in {{}, PrevRows}
    /\ status = "imported" => field_regions = {}

Init ==
    /\ InitDocument
    /\ pc = [w \in Workers |-> "idle"]
    /\ kind = [w \in Workers |-> "none"]
    /\ force = [w \in Workers |-> FALSE]
    /\ tmp_exists = [w \in Workers |-> FALSE]
    /\ detections = [w \in Workers |-> 0]
    /\ err = [w \in Workers |-> "none"]
    /\ result = [w \in Workers |-> "none"]
    /\ mIn = <<>> /\ mOut = <<>> /\ mPhase = "off"
    /\ rIn = <<>> /\ rOut = <<>> /\ rPhase = "off"
    /\ fIn = <<>> /\ fOut = <<>> /\ fPhase = "off"
    /\ pPhase = "off" /\ pPdf = <<>> /\ pCalls = <<>>
    /\ pFields = <<>> /\ pMerges = 0 /\ pOut = <<>>
    /\ MoreAtRest

\* POST /api/v1/hybrid/{id}/process: the endpoint's status check, then the
\* call of HybridProcessor.process_document
ApiRequest(w, f) ==
    /\ pc[w] = "idle"
    /\ kind' = [kind EXCEPT ![w] = "hybrid"]
    /\ force' = [force EXCEPT ![w] = f]
    /\ IF status \notin Processable /\ ~f
         THEN Return(w, "http400")
         ELSE Goto(w, "check") /\ UNCHANGED result
    /\ UNCHANGED <<status, error_message, field_regions, tmp_exists,
                   detections, err, restVars>>

\* python hybrid_processor.py <document_id> [--force], or a direct call of
\* process_document_hybrid
CliInvoke(w, f) ==
    /\ pc[w] = "idle"
    /\ kind' = [kind EXCEPT ![w] = "hybrid"]
    /\ force' = [force EXCEPT ![w] = f]
    /\ Goto(w, "check")
    /\ UNCHANGED <<status, error_message, field_regions, tmp_exists,
                   detections, err, result, restVars>>

\* process_document: fetch, then the already-processed check or, with force,
\* the delete of the existing FieldRegions and its commit
CheckExisting(w) ==
    /\ pc[w] = "check" /\ kind[w] = "hybrid"
    /\ IF ~force[w]
         THEN /\ IF Cardinality(field_regions) > 0
                   THEN Return(w, "skipped")
                   ELSE Goto(w, "claim") /\ UNCHANGED result
              /\ UNCHANGED field_regions
         ELSE /\ field_regions' = {}
              /\ Goto(w, "claim")
              /\ UNCHANGED result
    /\ UNCHANGED <<status, error_message, kind, force, tmp_exists,
                   detections, err, restVars>>

\* doc.status = DocumentStatus.processing; db.commit()
SetProcessing(w) ==
    /\ pc[w] = "claim"
    /\ status' = "processing"
    /\ Goto(w, "tmpfile")
    /\ UNCHANGED <<error_message, field_regions, kind, force, tmp_exists,
                   detections, err, result, restVars>>

\* tempfile.NamedTemporaryFile(delete=False).  In process_document the
\* download follows in the same step: download_to_path is declared async
\* (app/services/storage.py) and is called without await, so the call builds
\* a coroutine and returns; it neither raises nor fills the file.
CreateTempFile(w) ==
    /\ pc[w] = "tmpfile"
    /\ tmp_exists' = [tmp_exists EXCEPT ![w] = TRUE]
    /\ Goto(w, IF kind[w] = "hybrid" THEN "pipeline" ELSE "download")
    /\ UNCHANGED <<status, error_message, field_regions, kind, force,
                   detections, err, result, restVars>>

\* self.pipeline.detect_fields_for_pdf returns its merged list
RunPipeline(w, n) ==
    /\ pc[w] = "pipeline"
    /\ detections' = [detections EXCEPT ![w] = n]
    /\ Goto(w, "pagecount")
    /\ UNCHANGED <<status, error_message, field_regions, kind, force,
                   tmp_exists, err, result, restVars>>

\* fitz.open(tmp_path); len(pdf_doc); close
PageCount(w) ==
    /\ pc[w] = "pagecount"
    /\ Goto(w, "save")
    /\ UNCHANGED <<status, error_message, field_regions, kind, force,
                   tmp_exists, detections, err, result,
                   restVars>>

\* _save_detections_to_db: db.add for every detection, then db.commit()
SaveDetections(w) ==
    /\ pc[w] = "save"
    /\ field_regions' = field_regions \cup Rows(w)
    /\ Goto(w, "ready")
    /\ UNCHANGED <<status, error_message, kind, force, tmp_exists,
                   detections, err, result, restVars>>

\* doc.status = ready (page_count, acroform); db.commit(); return, through
\* the finally that unlinks the temporary file
SetReady(w) ==
    /\ pc[w] = "ready"
    /\ status' = "ready"
    /\ tmp_exists' = FinallyUnlink(w)
    /\ Return(w, "success")
    /\ UNCHANGED <<error_message, field_regions, kind, force, detections,
                   err, restVars>>

\* POST /ocr, delivered by the task queue: fetch the document
OcrInvoke(w) ==
    /\ pc[w] = "idle"
    /\ kind' = [kind EXCEPT ![w] = "ocr"]
    /\ Goto(w, "claim")
    /\ UNCHANGED <<status, error_message, field_regions, force, tmp_exists,
                   detections, err, result, restVars>>

\* await storage.download_to_path(...)
Download(w) ==
    /\ pc[w] = "download"
    /\ Goto(w, "extract")
    /\ UNCHANGED <<status, error_message, field_regions, kind, force,
                   tmp_exists, detections, err, result,
                   restVars>>

\* fitz.open, detect_acroform_fields, else detect_ocr_fields
Extract(w, n) ==
    /\ pc[w] = "extract"
    /\ detections' = [detections EXCEPT ![w] = n]
    /\ Goto(w, "commit")
    /\ UNCHANGED <<status, error_message, field_regions, kind, force,
                   tmp_exists, err, result, restVars>>

\* process_ocr: db.add for every field, doc.status = ready, one db.commit()
OcrCommit(w) ==
    /\ pc[w] = "commit"
    /\ field_regions' = field_regions \cup Rows(w)
    /\ status' = "ready"
    /\ Goto(w, "usage")
    /\ UNCHANGED <<error_message, kind, force, tmp_exists, detections, err,
                   result, restVars>>

\* process_ocr: the two UsageEvents, db.commit(), return through the finally
OcrUsage(w) ==
    /\ pc[w] = "usage"
    /\ tmp_exists' = FinallyUnlink(w)
    /\ Return(w, "success")
    /\ UNCHANGED <<status, error_message, field_regions, kind, force,
                   detections, err, restVars>>

\* a db.commit() raises: nothing of its transaction is persisted, and the
\* except handler runs its db.query(Document).  When the failure is a flush
\* error the Session refuses further use until rollback(), which the handler
\* never calls: its query raises, "Failed to update document status" is
\* logged and the original error is raised.
CommitFails(w, flushError) ==
    /\ pc[w] \in CommitSteps
    /\ pc[w] = "check" => force[w]
    /\ tmp_exists' = IF pc[w] \in InnerTry THEN FinallyUnlink(w)
                                           ELSE tmp_exists
    /\ IF flushError
         THEN Raise(w)
         ELSE /\ err' = [err EXCEPT ![w] = pc[w]]
              /\ Goto(w, "markfailed")
              /\ UNCHANGED result
    /\ UNCHANGED <<status, error_message, field_regions, kind, force,
                   detections, restVars>>

\* the pipeline (its merger), fitz.open or the awaited download raises; the
\* except handler fetches the document
StepRaises(w) ==
    /\ pc[w] \in RaisingSteps
    /\ err' = [err EXCEPT ![w] = pc[w]]
    /\ tmp_exists' = FinallyUnlink(w)
    /\ Goto(w, "markfailed")
    /\ UNCHANGED <<status, error_message, field_regions, kind, force,
                   detections, result, restVars>>

\* doc.status = failed; doc.error_message = error_msg; db.commit(); raise
MarkFailed(w) ==
    /\ pc[w] = "markfailed"
    /\ status' = "failed"
    /\ error_message' = ErrorText(err[w])
    /\ Raise(w)
    /\ UNCHANGED <<field_regions, kind, force, tmp_exists, detections,
                   restVars>>

\* the handler's commit raises: logged, and the original error is raised
MarkFailedCommitFails(w) ==
    /\ pc[w] = "markfailed"
    /\ Raise(w)
    /\ UNCHANGED <<status, error_message, field_regions, kind, force,
                   tmp_exists, detections, restVars>>

Next ==
    \/ \E w \in Workers, f \in BOOLEAN : ApiRequest(w, f)
    \/ \E w \in Workers, f \in BOOLEAN : CliInvoke(w, f)
    \/ \E w \in Workers : CheckExisting(w)
    \/ \E w \in Workers : SetProcessing(w)
    \/ \E w \in Workers : CreateTempFile(w)
    \/ \E w \in Workers, n \in 0..MaxDet : RunPipeline(w, n)
    \/ \E w \in Workers : PageCount(w)
    \/ \E w \in Workers : SaveDetections(w)
    \/ \E w \in Workers : SetReady(w)
    \/ \E w \in Workers : OcrInvoke(w)
    \/ \E w \in Workers : Download(w)
    \/ \E w \in Workers, n \in 0..MaxDet : Extract(w, n)
    \/ \E w \in Workers : OcrCommit(w)
    \/ \E w \in Workers : OcrUsage(w)
    \/ \E w \in Workers, fl \in BOOLEAN : CommitFails(w, fl)
    \/ \E w \in Workers : StepRaises(w)
    \/ \E w \in Workers : MarkFailed(w)
    \/ \E w \in Workers : MarkFailedCommitFails(w)

Spec == Init /\ [][Next]_vars

\* ------------------------------------------------------------------------
\* Ensemble merger
\* ------------------------------------------------------------------------
\* Coordinates are fractions of the page counted in units of 1/100000;
\* confidences are counted in hundredths.

\* lists longer than this are not passed to merge
MaxList == 1
\* highest page index of a detection
MaxPage == 1

Pages == 0..MaxPage

\* EnsembleMerger.DEFAULT_IOU_THRESHOLD = 0.30, in hundredths
IouThreshold == 30

\* TextOverlapFilter.DEFAULT_OVERLAP_THRESHOLD = 0.30, in hundredths
DefaultOverlapThreshold == 30

\* _is_checkbox_sized: 0.05 of the page
CheckboxMaxSide == 5000

DetectionSources == {"acroform", "vision", "geometric", "structure", "merged"}

\* DetectionSource.priority: priority_map
Priority(source) ==
    CASE source = "acroform"  -> 1
      [] source = "vision"    -> 2
      [] source = "geometric" -> 3
      [] source = "structure" -> 4
      [] source = "merged"    -> 5

Chars(str) ==
    CASE str = "Field 1"    -> <<"F", "i", "e", "l", "d", " ", "1">>
      [] str = "Checkbox 1" -> <<"C", "h", "e", "c", "k", "b", "o", "x", " ", "1">>
      [] str = "Name"       -> <<"N", "a", "m", "e">>
      [] str = "Field "         -> <<"F", "i", "e", "l", "d", " ">>
      [] str = "Text Field "    -> <<"T", "e", "x", "t", " ", "F", "i", "e", "l", "d", " ">>
      [] str = "Checkbox "      -> <<"C", "h", "e", "c", "k", "b", "o", "x", " ">>
      [] str = "Signature "     -> <<"S", "i", "g", "n", "a", "t", "u", "r", "e", " ">>
      [] str = "Widget "        -> <<"W", "i", "d", "g", "e", "t", " ">>
      [] str = "XObject Field " -> <<"X", "O", "b", "j", "e", "c", "t", " ", "F", "i", "e", "l", "d", " ">>

\* _is_generic_label: generic_patterns
GenericPatterns ==
    {Chars("Field "), Chars("Text Field "), Chars("Checkbox "),
     Chars("Signature "), Chars("Widget "), Chars("XObject Field ")}

Digits == {"0", "1", "2", "3", "4", "5", "6", "7", "8", "9"}

\* str.startswith
StartsWith(label, pattern) ==
    /\ Len(label) >= Len(pattern)
    /\ SubSeq(label, 1, Len(pattern)) = pattern

\* str.isdigit: at least one character and every character a digit
IsDigit(suffix) ==
    /\ Len(suffix) > 0
    /\ \A i \in 1..Len(suffix) : suffix[i] \in Digits

\* EnsembleMerger._is_generic_label
IsGenericLabel(label) ==
    \/ Len(label) = 0
    \/ \E pattern \in GenericPatterns :
          /\ StartsWith(label, pattern)
          /\ IsDigit(SubSeq(label, Len(pattern) + 1, Len(label)))

\* the size test with the sides compared by >=: a 5% side is too large
IsCheckboxSized_Strict(bbox) ==
    /\ ~(bbox.width >= CheckboxMaxSide \/ bbox.height >= CheckboxMaxSide)
    /\ bbox.height > 0
    /\ ~(2 * bbox.width < bbox.height \/ bbox.width > 2 * bbox.height)

\* EnsembleMerger._is_checkbox_sized
IsCheckboxSized(bbox) ==
    /\ ~(bbox.width > CheckboxMaxSide \/ bbox.height > CheckboxMaxSide)
    /\ bbox.height > 0
    /\ ~(2 * bbox.width < bbox.height \/ bbox.width > 2 * bbox.height)

Min(a, b) == IF a < b THEN a ELSE b

Max(a, b) == IF a > b THEN a ELSE b

\* BBox.area
Area(bbox) == bbox.width * bbox.height

\* BBox.intersects
Intersects(a, b) ==
    /\ ~(a.x + a.width <= b.x \/ b.x + b.width <= a.x)
    /\ ~(a.y + a.height <= b.y \/ b.y + b.height <= a.y)

\* BBox.intersection_area
IntersectionArea(a, b) ==
    IF ~Intersects(a, b) THEN 0
    ELSE (Min(a.x + a.width, b.x + b.width) - Max(a.x, b.x))
         * (Min(a.y + a.height, b.y + b.height) - Max(a.y, b.y))

\* detection.bbox.iou(existing.bbox): class BBox defines to_rect, area,
\* center, intersects, intersection_area, from_rect and from_pixels and no
\* iou, so the attribute lookup raises AttributeError
BBoxIou(a, b) == [raised |-> TRUE, num |-> 0, den |-> 1]

\* EnsembleMerger._resolve_type_conflict
ResolveTypeConflict(primary, secondary) ==
    IF primary.field_type = secondary.field_type THEN primary
    ELSE IF /\ secondary.field_type = "checkbox"
            /\ primary.field_type = "text"
            /\ IsCheckboxSized(primary.bbox)
      THEN [primary EXCEPT !.field_type = "checkbox"]
    ELSE IF /\ secondary.source = "geometric"
            /\ secondary.field_type = "signature"
            /\ primary.field_type = "text"
      THEN [primary EXCEPT !.field_type = "signature"]
    ELSE primary

\* the label taken over together with the candidate's template_key
ResolveConflict_WithTemplateKey(higher, lower) ==
    LET labelled ==
            IF IsGenericLabel(higher.label) /\ ~IsGenericLabel(lower.label)
              THEN [higher EXCEPT !.label = lower.label,
                                  !.template_key = lower.template_key]
              ELSE higher
        typed == ResolveTypeConflict(labelled, lower)
    IN  IF lower.confidence > typed.confidence
          THEN [typed EXCEPT !.confidence = lower.confidence]
          ELSE typed

\* EnsembleMerger._resolve_conflict
ResolveConflict(higher, lower) ==
    LET labelled ==
            IF IsGenericLabel(higher.label) /\ ~IsGenericLabel(lower.label)
              THEN [higher EXCEPT !.label = lower.label]
              ELSE higher
        typed == ResolveTypeConflict(labelled, lower)
    IN  IF lower.confidence > typed.confidence
          THEN [typed EXCEPT !.confidence = lower.confidence]
          ELSE typed

\* the inner loop of _deduplicate_by_iou: the first kept detection of the
\* same page whose iou with the candidate exceeds the threshold (idx 0 when
\* there is none)
RECURSIVE FindMergeTarget(_, _, _)
FindMergeTarget(detection, kept, idx) ==
    IF idx > Len(kept) THEN [raised |-> FALSE, idx |-> 0]
    ELSE IF detection.page_index # kept[idx].page_index
      THEN FindMergeTarget(detection, kept, idx + 1)
    ELSE LET iou == BBoxIou(detection.bbox, kept[idx].bbox)
         IN  IF iou.raised THEN [raised |-> TRUE, idx |-> idx]
             ELSE IF iou.num * 100 > IouThreshold * iou.den
               THEN [raised |-> FALSE, idx |-> idx]
             ELSE FindMergeTarget(detection, kept, idx + 1)

\* EnsembleMerger._deduplicate_by_iou, from position i of the sorted list
RECURSIVE DeduplicateFrom(_, _, _)
DeduplicateFrom(dets, i, kept) ==
    IF i > Len(dets) THEN [raised |-> FALSE, value |-> kept]
    ELSE LET target == FindMergeTarget(dets[i], kept, 1)
         IN  IF target.raised THEN [raised |-> TRUE, value |-> <<>>]
             ELSE IF target.idx = 0
               THEN DeduplicateFrom(dets, i + 1, Append(kept, dets[i]))
             ELSE DeduplicateFrom(dets, i + 1,
                      [kept EXCEPT ![target.idx] =
                           ResolveConflict(kept[target.idx], dets[i])])

DeduplicateByIou(dets) == DeduplicateFrom(dets, 1, <<>>)

\* key=lambda d: d.source.priority
PriorityBefore(a, b) == Priority(a.source) < Priority(b.source)

\* key=lambda d: (d.page_index, -(d.bbox.y + d.bbox.height), d.bbox.x)
PositionBefore(a, b) ==
    \/ a.page_index < b.page_index
    \/ /\ a.page_index = b.page_index
       /\ \/ a.bbox.y + a.bbox.height > b.bbox.y + b.bbox.height
          \/ /\ a.bbox.y + a.bbox.height = b.bbox.y + b.bbox.height
             /\ a.bbox.x < b.bbox.x

\* the sort key in use: "priority" in merge, "position" in _sort_detections
KeyBefore(key, a, b) ==
    IF key = "priority" THEN PriorityBefore(a, b) ELSE PositionBefore(a, b)

\* list.sort / sorted: stable, by insertion from the left
RECURSIVE InsertSorted(_, _, _)
InsertSorted(d, sorted, key) ==
    IF sorted = <<>> THEN <<d>>
    ELSE IF KeyBefore(key, d, sorted[Len(sorted)])
      THEN Append(InsertSorted(d, SubSeq(sorted, 1, Len(sorted) - 1), key),
                  sorted[Len(sorted)])
    ELSE Append(sorted, d)

RECURSIVE StableSort(_, _)
StableSort(dets, key) ==
    IF dets = <<>> THEN <<>>
    ELSE InsertSorted(dets[Len(dets)],
                      StableSort(SubSeq(dets, 1, Len(dets) - 1), key), key)

\* EnsembleMerger._sort_detections
SortDetections(dets) == StableSort(dets, "position")

\* EnsembleMerger.merge
Merge(pdf_structure_fields, geometric_fields, vision_fields) ==
    IF /\ pdf_structure_fields = <<>>
       /\ geometric_fields = <<>>
       /\ vision_fields = <<>>
      THEN [raised |-> FALSE, value |-> <<>>]
      ELSE LET all_detections ==
                   StableSort(pdf_structure_fields \o geometric_fields
                                  \o vision_fields, "priority")
               merged == DeduplicateByIou(all_detections)
           IN  IF merged.raised THEN merged
               ELSE [raised |-> FALSE, value |-> SortDetections(merged.value)]

\* bboxes handed to the merger: the box of the priority tests
\* (0.1, 0.1, 0.3, 0.05), the same box moved by 0.00004, and a box apart
BBoxes ==
    {[x |-> 10000, y |-> 10000, width |-> 30000, height |-> 5000],
     [x |-> 10004, y |-> 10000, width |-> 30000, height |-> 5000],
     [x |-> 50000, y |-> 50000, width |-> 10000, height |-> 4000]}

\* template_key: the field id for a vision detection
\* (vision_detector_adapter.py), None for the other detectors
TemplateKey(source) == IF source = "vision" THEN "id" ELSE "None"

\* what each detector labels and types its detections with
DetectionsOf(source) ==
    {[page_index |-> p, bbox |-> b, source |-> source,
      field_type |-> IF source = "geometric" THEN "checkbox" ELSE "text",
      label |-> CASE source = "structure" -> Chars("Field 1")
                  [] source = "geometric" -> Chars("Checkbox 1")
                  [] source = "vision"    -> Chars("Name"),
      confidence |-> IF source = "structure" THEN 100 ELSE 85,
      template_key |-> TemplateKey(source)]
        : p \in Pages, b \in BBoxes}

ListsOf(S) == UNION {[1..k -> S] : k \in 0..MaxList}

\* the processor at rest while the merger is exercised
ProcessorAtRest ==
    /\ status = "imported"
    /\ error_message = "none"
    /\ field_regions = {}
    /\ pc = [w \in Workers |-> "idle"]
    /\ kind = [w \in Workers |-> "none"]
    /\ force = [w \in Workers |-> FALSE]
    /\ tmp_exists = [w \in Workers |-> FALSE]
    /\ detections = [w \in Workers |-> 0]
    /\ err = [w \in Workers |-> "none"]
    /\ result = [w \in Workers |-> "none"]

\* no call of _resolve_conflict under way
ResolveAtRest == rIn = <<>> /\ rOut = <<>> /\ rPhase = "off"

\* no call of filter_fields under way
FilterAtRest == fIn = <<>> /\ fOut = <<>> /\ fPhase = "off"

\* no run of detect_fields_for_pdf under way
PipelineAtRest ==
    /\ pPhase = "off" /\ pPdf = <<>> /\ pCalls = <<>>
    /\ pFields = <<>> /\ pMerges = 0 /\ pOut = <<>>

MergeInit ==
    /\ ProcessorAtRest
    /\ MoreAtRest
    /\ ResolveAtRest
    /\ FilterAtRest
    /\ PipelineAtRest
    /\ mIn \in [structure : ListsOf(DetectionsOf("structure")),
                geometric : ListsOf(DetectionsOf("geometric")),
                vision : ListsOf(DetectionsOf("vision"))]
    /\ mOut = <<>>
    /\ mPhase = "input"

\* one call of merger.merge(pdf_structure_fields, geometric_fields,
\* vision_fields)
MergeCall ==
    /\ mPhase = "input"
    /\ mOut' = Merge(mIn.structure, mIn.geometric, mIn.vision)
    /\ mPhase' = "done"
    /\ UNCHANGED <<mIn, procVars, resolveVars, filterVars, pipeVars,
                   moreVars>>

MergeNext == MergeCall

MergeSpec == MergeInit /\ [][MergeNext]_vars

\* ------------------------------------------------------------------------
\* Conflict resolution on its own (ResolveSpec)
\* ------------------------------------------------------------------------

\* labels: empty, one blank, a placeholder with and without its number, and
\* a label read from the page
Labels ==
    {<<>>, <<" ">>, Chars("Field 1"), Chars("Field "), Chars("Name")}

\* widths and heights around the 5% side and the 0.5 and 2.0 aspect ratios
ResolveSizes ==
    {<<5000, 5000>>, <<5001, 5000>>, <<5000, 5001>>, <<2500, 5000>>,
     <<2499, 5000>>, <<5000, 2500>>, <<5000, 2499>>, <<3000, 0>>,
     <<30000, 5000>>}

\* the kept detections handed to _resolve_conflict
HigherDetections ==
    {[page_index |-> 0,
      bbox |-> [x |-> 10000, y |-> 10000, width |-> sz[1], height |-> sz[2]],
      source |-> "structure", field_type |-> t, label |-> l,
      confidence |-> 85, template_key |-> TemplateKey("structure")]
        : sz \in ResolveSizes, t \in {"text", "checkbox"}, l \in Labels}

\* the absorbed candidates handed to _resolve_conflict
LowerDetections ==
    {[page_index |-> 0,
      bbox |-> [x |-> 10000, y |-> 10000, width |-> 5000, height |-> 5000],
      source |-> src, field_type |-> t, label |-> l, confidence |-> c,
      template_key |-> TemplateKey(src)]
        : src \in {"geometric", "vision"},
          t \in {"text", "checkbox", "signature"},
          l \in Labels, c \in {80, 90}}

\* the processor and the merger at rest
ResolveInit ==
    /\ ProcessorAtRest
    /\ MoreAtRest
    /\ mIn = <<>> /\ mOut = <<>> /\ mPhase = "off"
    /\ FilterAtRest
    /\ PipelineAtRest
    /\ rIn \in [higher : HigherDetections, lower : LowerDetections]
    /\ rOut = <<>>
    /\ rPhase = "input"

\* one call of self._resolve_conflict(merge_target, detection)
ResolveCall ==
    /\ rPhase = "input"
    /\ rOut' = ResolveConflict(rIn.higher, rIn.lower)
    /\ rPhase' = "done"
    /\ UNCHANGED <<rIn, procVars, mergeVars, filterVars, pipeVars,
                   moreVars>>

ResolveNext == ResolveCall

ResolveSpec == ResolveInit /\ [][ResolveNext]_vars

\* ------------------------------------------------------------------------
\* Text-overlap filter (FilterSpec)
\* ------------------------------------------------------------------------
\* Here coordinates are counted in hundredths of the page and thresholds in
\* hundredths.

\* TextOverlapFilter.__init__: the threshold clamped to [0.0, 1.0]
ClampThreshold(overlap_threshold) ==
    IF overlap_threshold < 0 THEN 0
    ELSE IF overlap_threshold > 100 THEN 100
    ELSE overlap_threshold

\* calculate_text_overlap: the loop summing the intersection areas
RECURSIVE TotalIntersection(_, _)
TotalIntersection(field_bbox, text_regions) ==
    IF text_regions = <<>> THEN 0
    ELSE IntersectionArea(field_bbox, Head(text_regions))
         + TotalIntersection(field_bbox, Tail(text_regions))

\* TextOverlapFilter.calculate_text_overlap: the ratio num / den, 0.0 for a
\* field without area or a page without text, and never above 1.0
CalculateTextOverlap(field_bbox, text_regions) ==
    IF Area(field_bbox) <= 0 \/ text_regions = <<>>
      THEN [num |-> 0, den |-> 1]
      ELSE [num |-> Min(TotalIntersection(field_bbox, text_regions),
                        Area(field_bbox)),
            den |-> Area(field_bbox)]

\* text_regions_by_page.get(page_index, [])
TextRegionsOn(regions, page_index) ==
    IF page_index \in DOMAIN regions THEN regions[page_index] ELSE <<>>

\* the test of filter_fields' loop: overlap_ratio < self.overlap_threshold
BelowThreshold(threshold, field, regions) ==
    LET overlap_ratio ==
            CalculateTextOverlap(field.bbox,
                                 TextRegionsOn(regions, field.page_index))
    IN  overlap_ratio.num * 100 < threshold * overlap_ratio.den

\* TextOverlapFilter.filter_fields, for a filter built with
\* overlap_threshold; text.failed when the text extraction raised
FilterFields(overlap_threshold, fields, text) ==
    IF fields = <<>> THEN <<>>
    ELSE IF text.failed THEN fields
    ELSE SelectSeq(fields,
                   LAMBDA field :
                       BelowThreshold(ClampThreshold(overlap_threshold),
                                      field, text.regions))

\* thresholds handed to the constructor, two of them out of range
Thresholds == {-10, 0, 30, 100, 150}

\* the field of the threshold tests, (0.1, 0.1, 0.3, 0.3), and a field
\* without width
FilterBoxes ==
    {[x |-> 10, y |-> 10, width |-> 30, height |-> 30],
     [x |-> 10, y |-> 10, width |-> 0, height |-> 30]}

FilterFieldsOf ==
    {[page_index |-> p, bbox |-> b] : p \in Pages, b \in FilterBoxes}

\* the text of a page: none, a block over the whole field (the block of the
\* threshold tests), that block twice, a block over 30% of the field
PageTexts ==
    {<<>>,
     <<[x |-> 0, y |-> 0, width |-> 50, height |-> 50]>>,
     <<[x |-> 0, y |-> 0, width |-> 50, height |-> 50],
       [x |-> 0, y |-> 0, width |-> 50, height |-> 50]>>,
     <<[x |-> 10, y |-> 10, width |-> 9, height |-> 30]>>}

\* what _extract_all_text_regions gives for the PDF, or its failure
PdfTexts ==
    {[failed |-> FALSE, regions |-> r] : r \in [Pages -> PageTexts]}
    \cup {[failed |-> TRUE, regions |-> [p \in Pages |-> <<>>]]}

FilterInit ==
    /\ ProcessorAtRest
    /\ MoreAtRest
    /\ mIn = <<>> /\ mOut = <<>> /\ mPhase = "off"
    /\ ResolveAtRest
    /\ PipelineAtRest
    /\ fIn \in [threshold : Thresholds,
                 fields : ListsOf(FilterFieldsOf),
                 text : PdfTexts]
    /\ fOut = <<>>
    /\ fPhase = "input"

\* TextOverlapFilter(overlap_threshold).filter_fields(fields, pdf_path)
FilterCall ==
    /\ fPhase = "input"
    /\ fOut' = FilterFields(fIn.threshold, fIn.fields, fIn.text)
    /\ fPhase' = "done"
    /\ UNCHANGED <<fIn, procVars, mergeVars, resolveVars, pipeVars,
                   moreVars>>

FilterNext == FilterCall

FilterSpec == FilterInit /\ [][FilterNext]_vars

\* ------------------------------------------------------------------------
\* Pipeline orchestrator (PipelineSpec)
\* ------------------------------------------------------------------------
\* The orchestrator hands detections on without reading their coordinates;
\* they are counted in hundredths of the page, as in the filter.

\* the bbox the fake detectors of the pipeline tests report,
\* (0.1, 0.1, 0.3, 0.05)
PipelineBox == [x |-> 10, y |-> 10, width |-> 30, height |-> 5]

\* what a detector of the given source can report on the given pages
Found(source, pages) ==
    {[page_index |-> p, bbox |-> PipelineBox, source |-> source,
      field_type |-> "text",
      label |-> CASE source = "structure" -> Chars("Field 1")
                  [] source = "geometric" -> Chars("Checkbox 1")
                  [] source = "vision"    -> Chars("Name"),
      confidence |-> 85, template_key |-> TemplateKey(source)]
        : p \in pages}

\* a detector call returns a list or raises
Outcomes(source, pages) ==
    {[state |-> "returned", value |-> l] : l \in ListsOf(Found(source, pages))}
    \cup {[state |-> "raised", value |-> <<>>]}

Pending == [state |-> "pending", value |-> <<>>]

\* the PDFs handed to the pipeline: without text, or with a text block over
\* every field
PipelineTexts ==
    {[failed |-> FALSE, regions |-> [p \in Pages |-> <<>>]],
     [failed |-> FALSE,
      regions |-> [p \in Pages |->
                      <<[x |-> 0, y |-> 0, width |-> 50, height |-> 50]>>]]}

PipelineInit ==
    /\ ProcessorAtRest
    /\ MoreAtRest
    /\ mIn = <<>> /\ mOut = <<>> /\ mPhase = "off"
    /\ ResolveAtRest
    /\ FilterAtRest
    /\ pPhase = "structure"
    /\ pPdf \in [text : PipelineTexts, vision_detector : BOOLEAN]
    /\ pCalls = [structure |-> Pending, render |-> "pending",
                 images |-> <<>>, pages |-> <<>>, vision |-> Pending]
    /\ pFields = [structure |-> <<>>, geometric |-> <<>>, vision |-> <<>>]
    /\ pMerges = 0
    /\ pOut = <<>>

\* the except of a detector wrapper: log, return []
FieldsOrEmpty(outcome) ==
    IF outcome.state = "returned" THEN outcome.value ELSE <<>>

\* _run_pdf_structure_detector
RunPdfStructureDetector(outcome) ==
    /\ pPhase = "structure"
    /\ pCalls' = [pCalls EXCEPT !.structure = outcome]
    /\ pFields' = [pFields EXCEPT !.structure = FieldsOrEmpty(outcome)]
    /\ pPhase' = "render"
    /\ UNCHANGED <<pPdf, pMerges, pOut, procVars, mergeVars, resolveVars,
                   filterVars, moreVars>>

\* the page loop of _render_pdf_to_images with the failed pages left out
RenderedImages_DropFailed(rendered) ==
    SelectSeq([i \in 1..Len(rendered) |->
                  [page |-> i - 1,
                   kind |-> IF rendered[i] THEN "image" ELSE "sentinel"]],
              LAMBDA image : image.kind = "image")

\* the page loop of _render_pdf_to_images: one raster per PDF page, in page
\* order, a 1 x 1 raster in the place of a page whose rendering raised
RenderedImages(rendered) ==
    [i \in 1..Len(rendered) |->
        [page |-> i - 1,
         kind |-> IF rendered[i] THEN "image" ELSE "sentinel"]]

\* _run_geometric_detector: _render_pdf_to_images.  A failure for the PDF as
\* a whole is caught inside it and [] is returned, for which the geometric
\* pass returns [] in its turn.
RenderPdfToImages(ok, rendered) ==
    /\ pPhase = "render"
    /\ pCalls' = [pCalls EXCEPT
                     !.render = IF ok THEN "returned" ELSE "raised",
                     !.images = IF ok THEN RenderedImages(rendered) ELSE <<>>]
    /\ pPhase' = IF pCalls'.images # <<>> THEN "page" ELSE "vision"
    /\ UNCHANGED <<pPdf, pFields, pMerges, pOut, procVars, mergeVars,
                   resolveVars, filterVars, moreVars>>

\* the body of the page loop: all_fields.extend(page_fields), or continue
\* when detect_page_fields raised
AfterPage(all_fields, outcome) ==
    IF outcome.state = "returned" THEN all_fields \o outcome.value
                                  ELSE all_fields

\* _run_geometric_detector: detect_page_fields for the next page image
DetectPageFields(outcome) ==
    /\ pPhase = "page"
    /\ pCalls' = [pCalls EXCEPT !.pages = Append(@, outcome)]
    /\ pFields' = [pFields EXCEPT !.geometric = AfterPage(@, outcome)]
    /\ pPhase' = IF Len(pCalls.pages) + 1 = Len(pCalls.images)
                   THEN "vision" ELSE "page"
    /\ UNCHANGED <<pPdf, pMerges, pOut, procVars, mergeVars, resolveVars,
                   filterVars, moreVars>>

\* _run_vision_detector: [] when no vision detector is set
RunVisionDetector(outcome) ==
    /\ pPhase = "vision"
    /\ pPdf.vision_detector
    /\ pCalls' = [pCalls EXCEPT !.vision = outcome]
    /\ pFields' = [pFields EXCEPT !.vision = FieldsOrEmpty(outcome)]
    /\ pPhase' = "merge"
    /\ UNCHANGED <<pPdf, pMerges, pOut, procVars, mergeVars, resolveVars,
                   filterVars, moreVars>>

SkipVisionDetector ==
    /\ pPhase = "vision"
    /\ ~pPdf.vision_detector
    /\ pCalls' = [pCalls EXCEPT !.vision = [state |-> "absent", value |-> <<>>]]
    /\ pPhase' = "merge"
    /\ UNCHANGED <<pPdf, pFields, pMerges, pOut, procVars, mergeVars,
                   resolveVars, filterVars, moreVars>>

\* the arguments of self.ensemble_merger.merge(...), leaving the vision
\* list behind
MergeArguments_WithoutVision ==
    [structure |-> pFields.structure, geometric |-> pFields.geometric,
     vision |-> <<>>]

\* the arguments of self.ensemble_merger.merge(...)
MergeArguments ==
    [structure |-> pFields.structure, geometric |-> pFields.geometric,
     vision |-> pFields.vision]

\* merged_fields = self.ensemble_merger.merge(...); return merged_fields.
\* An exception of merge is not caught.
MergeAndReturn ==
    /\ pPhase = "merge"
    /\ mIn' = MergeArguments
    /\ mOut' = Merge(mIn'.structure, mIn'.geometric, mIn'.vision)
    /\ mPhase' = "done"
    /\ pMerges' = pMerges + 1
    /\ pOut' = mOut'
    /\ pPhase' = "done"
    /\ UNCHANGED <<pPdf, pCalls, pFields, procVars, resolveVars, filterVars,
                   moreVars>>

\* enumerate(page_images): the page_index handed to detect_page_fields
\* with the next raster; nothing is found on a 1 x 1 raster
NextPageIndex ==
    IF pPhase # "page" THEN {}
    ELSE IF pCalls.images[Len(pCalls.pages) + 1].kind = "sentinel" THEN {}
    ELSE {Len(pCalls.pages)}

PipelineNext ==
    \/ \E o \in Outcomes("structure", Pages) : RunPdfStructureDetector(o)
    \/ \E ok \in BOOLEAN, rendered \in [1..MaxPage + 1 -> BOOLEAN] :
           RenderPdfToImages(ok, rendered)
    \/ \E o \in Outcomes("geometric", NextPageIndex) : DetectPageFields(o)
    \/ \E o \in Outcomes("vision", Pages) : RunVisionDetector(o)
    \/ SkipVisionDetector
    \/ MergeAndReturn

PipelineSpec == PipelineInit /\ [][PipelineNext]_vars

\* ------------------------------------------------------------------------
\* BBox on its own (BBoxSpec)
\* ------------------------------------------------------------------------
\* Coordinates are counted in hundredths of the page.

\* BBox.__post_init__: ValueError for a coordinate outside [0, 1] or a box
\* that leaves the page
PostInit(c) ==
    [raised |-> \/ ~(0 <= c.x /\ c.x <= 100)
                \/ ~(0 <= c.y /\ c.y <= 100)
                \/ ~(0 <= c.width /\ c.width <= 100)
                \/ ~(0 <= c.height /\ c.height <= 100)
                \/ c.x + c.width > 100
                \/ c.y + c.height > 100,
     value |-> c]

\* coordinates below, on and above the ends of [0, 1], and inside it
Coordinates == {-10, 0, 30, 80, 110}

\* the boxes the second BBox is built from: the first box of the overlap
\* tests, a box apart from it, a box without area
OtherBoxes ==
    {[x |-> 0, y |-> 0, width |-> 30, height |-> 30],
     [x |-> 80, y |-> 80, width |-> 10, height |-> 10],
     [x |-> 0, y |-> 0, width |-> 0, height |-> 0]}

BBoxInit ==
    /\ ProcessorAtRest
    /\ mIn = <<>> /\ mOut = <<>> /\ mPhase = "off"
    /\ ResolveAtRest
    /\ FilterAtRest
    /\ PipelineAtRest
    /\ ApiAtRest
    /\ JobsAtRest
    /\ bIn \in [a : [x : Coordinates, y : Coordinates,
                      width : Coordinates, height : Coordinates],
                 b : OtherBoxes]
    /\ bOut = <<>>
    /\ bPhase = "input"

\* a = BBox(x, y, width, height); b = BBox(...)
BBoxConstruct ==
    /\ bPhase = "input"
    /\ bOut' = [a |-> PostInit(bIn.a), b |-> PostInit(bIn.b),
                iou |-> [raised |-> FALSE, num |-> 0, den |-> 1]]
    /\ bPhase' = "built"
    /\ UNCHANGED <<bIn, procVars, mergeVars, resolveVars, filterVars,
                   pipeVars, apiVars, jobVars>>

\* a.iou(b), for two boxes whose constructors returned
BBoxIouCall ==
    /\ bPhase = "built"
    /\ ~bOut.a.raised /\ ~bOut.b.raised
    /\ bOut' = [bOut EXCEPT !.iou = BBoxIou(bOut.a.value, bOut.b.value)]
    /\ bPhase' = "done"
    /\ UNCHANGED <<bIn, procVars, mergeVars, resolveVars, filterVars,
                   pipeVars, apiVars, jobVars>>

BBoxNext == BBoxConstruct \/ BBoxIouCall

BBoxSpec == BBoxInit /\ [][BBoxNext]_vars

\* ------------------------------------------------------------------------
\* The documents router's process endpoint and the OCR worker (ApiSpec)
\* ------------------------------------------------------------------------

ApiInit ==
    /\ InitDocument
    /\ pc = [w \in Workers |-> "idle"]
    /\ kind = [w \in Workers |-> "none"]
    /\ force = [w \in Workers |-> FALSE]
    /\ tmp_exists = [w \in Workers |-> FALSE]
    /\ detections = [w \in Workers |-> 0]
    /\ err = [w \in Workers |-> "none"]
    /\ result = [w \in Workers |-> "none"]
    /\ mIn = <<>> /\ mOut = <<>> /\ mPhase = "off"
    /\ ResolveAtRest
    /\ FilterAtRest
    /\ PipelineAtRest
    /\ BBoxAtRest
    /\ JobsAtRest
    /\ apiPc = "start"
    /\ queued = FALSE

\* POST /api/v1/documents/{id}/process: the query, and HTTP 400 unless the
\* status read is `imported`
ApiFetch ==
    /\ apiPc = "start"
    /\ apiPc' = IF status # "imported" THEN "http400" ELSE "enqueue"
    /\ UNCHANGED <<queued, procVars, mergeVars, resolveVars, filterVars,
                   pipeVars, bboxVars, jobVars>>

\* cloud_tasks.enqueue_ocr_task(document_id): the task is created, or the
\* call raises and the request ends with nothing written
ApiEnqueue(created) ==
    /\ apiPc = "enqueue"
    /\ queued' = created
    /\ apiPc' = IF created THEN "write" ELSE "raised"
    /\ UNCHANGED <<procVars, mergeVars, resolveVars, filterVars, pipeVars,
                   bboxVars, jobVars>>

\* document.status = DocumentStatus.processing; db.commit(): an UPDATE of
\* the row, whatever its status has become since the query
ApiWriteProcessing ==
    /\ apiPc = "write"
    /\ status' = "processing"
    /\ apiPc' = "done"
    /\ UNCHANGED <<queued, error_message, field_regions, pc, kind, force,
                   tmp_exists, detections, err, result, mergeVars,
                   resolveVars, filterVars, pipeVars, bboxVars, jobVars>>

\* the task queue posts the task to the worker's /ocr (at least once)
TaskDelivered(w) ==
    /\ queued
    /\ OcrInvoke(w)

ApiNext ==
    \/ ApiFetch
    \/ \E created \in BOOLEAN : ApiEnqueue(created)
    \/ ApiWriteProcessing
    \/ \E w \in Workers : TaskDelivered(w)
    \/ \E w \in Workers : SetProcessing(w)
    \/ \E w \in Workers : CreateTempFile(w)
    \/ \E w \in Workers : Download(w)
    \/ \E w \in Workers, n \in 0..MaxDet : Extract(w, n)
    \/ \E w \in Workers : OcrCommit(w)
    \/ \E w \in Workers : OcrUsage(w)
    \/ \E w \in Workers, fl \in BOOLEAN : CommitFails(w, fl)
    \/ \E w \in Workers : StepRaises(w)
    \/ \E w \in Workers : MarkFailed(w)
    \/ \E w \in Workers : MarkFailedCommitFails(w)

ApiSpec == ApiInit /\ [][ApiNext]_vars

\* ------------------------------------------------------------------------
\* CommonForms jobs: the router, its job store and the worker (JobSpec)
\* ------------------------------------------------------------------------

\* the FieldRegion rows the CommonForms worker adds
CfRows == {[run |-> NumWorkers + 1, det |-> 1]}

\* the document as earlier runs left it; a document that was never
\* processed has no fillable PDF
JobInit ==
    /\ InitDocument
    /\ pc = [w \in Workers |-> "idle"]
    /\ kind = [w \in Workers |-> "none"]
    /\ force = [w \in Workers |-> FALSE]
    /\ tmp_exists = [w \in Workers |-> FALSE]
    /\ detections = [w \in Workers |-> 0]
    /\ err = [w \in Workers |-> "none"]
    /\ result = [w \in Workers |-> "none"]
    /\ mIn = <<>> /\ mOut = <<>> /\ mPhase = "off"
    /\ ResolveAtRest
    /\ FilterAtRest
    /\ PipelineAtRest
    /\ BBoxAtRest
    /\ ApiAtRest
    /\ jStatus = "none" /\ jReported = "none"
    /\ bgPc = "off" /\ cfPc = "idle" /\ cfResp = "none"
    /\ filled \in BOOLEAN
    /\ status = "imported" => ~filled

\* POST /api/v1/process/commonforms/{id}: the job is stored as queued;
\* CloudTasksService has no enqueue_commonforms_task, so the call raises,
\* the except branch sets the job to processing and starts
\* _process_commonforms_background.  The handler has no await: no other
\* request runs in between.
ProcessCommonforms ==
    /\ jStatus = "none"
    /\ jStatus' = "processing"
    /\ bgPc' = "start"
    /\ UNCHANGED <<jReported, cfPc, cfResp, filled, procVars, mergeVars,
                   resolveVars, filterVars, pipeVars, bboxVars, apiVars>>

\* _process_commonforms_background up to the await of client.post: without a
\* worker URL the job is failed, otherwise the request goes to the worker
BgStart(configured) ==
    /\ bgPc = "start"
    /\ IF configured
         THEN /\ bgPc' = "posted"
              /\ cfPc' = "claim"
              /\ UNCHANGED jStatus
         ELSE /\ bgPc' = "failed"
              /\ jStatus' = "failed"
              /\ UNCHANGED cfPc
    /\ UNCHANGED <<jReported, cfResp, filled, procVars, mergeVars,
                   resolveVars, filterVars, pipeVars, bboxVars, apiVars>>

\* cf_worker.process_commonforms: doc.status = processing; db.commit()
CfSetProcessing ==
    /\ cfPc = "claim"
    /\ status' = "processing"
    /\ cfPc' = "run"
    /\ UNCHANGED <<error_message, field_regions, pc, kind, force, tmp_exists,
                   detections, err, result, jStatus, jReported, bgPc, cfResp,
                   filled, mergeVars, resolveVars, filterVars, pipeVars,
                   bboxVars, apiVars>>

\* a step of the worker raises: the document is failed with the error's
\* text and the request is answered with HTTP 500
CfFails ==
    /\ cfPc = "run"
    /\ status' = "failed"
    /\ error_message' = "step error"
    /\ cfResp' = "500"
    /\ cfPc' = "done"
    /\ UNCHANGED <<field_regions, pc, kind, force, tmp_exists, detections,
                   err, result, jStatus, jReported, bgPc, filled, mergeVars,
                   resolveVars, filterVars, pipeVars, bboxVars, apiVars>>

\* steps 6 and 7 of the worker: the FieldRegions, doc.status = ready,
\* doc.storage_key_filled = output_key, db.commit()
CfCommitReady ==
    /\ cfPc = "run"
    /\ field_regions' = field_regions \cup CfRows
    /\ status' = "ready"
    /\ filled' = TRUE
    /\ cfPc' = "presign"
    /\ UNCHANGED <<error_message, pc, kind, force, tmp_exists, detections,
                   err, result, jStatus, jReported, bgPc, cfResp, mergeVars,
                   resolveVars, filterVars, pipeVars, bboxVars, apiVars>>

\* storage.generate_presigned_url and the response: HTTP 200, or the call
\* raises, the handler marks the document failed and answers HTTP 500
CfRespond(signed) ==
    /\ cfPc = "presign"
    /\ cfPc' = "done"
    /\ IF signed
         THEN /\ cfResp' = "200"
              /\ UNCHANGED <<status, error_message>>
         ELSE /\ cfResp' = "500"
              /\ status' = "failed"
              /\ error_message' = "step error"
    /\ UNCHANGED <<field_regions, pc, kind, force, tmp_exists, detections,
                   err, result, jStatus, jReported, bgPc, filled, mergeVars,
                   resolveVars, filterVars, pipeVars, bboxVars, apiVars>>

\* the background task gets the worker's response: completed for 200,
\* failed for any other status
BgReceive ==
    /\ bgPc = "posted"
    /\ cfPc = "done"
    /\ jStatus' = IF cfResp = "200" THEN "completed" ELSE "failed"
    /\ bgPc' = jStatus'
    /\ UNCHANGED <<jReported, cfPc, cfResp, filled, procVars, mergeVars,
                   resolveVars, filterVars, pipeVars, bboxVars, apiVars>>

\* client.post times out or raises: the job is failed
BgRaises ==
    /\ bgPc = "posted"
    /\ jStatus' = "failed"
    /\ bgPc' = "failed"
    /\ UNCHANGED <<jReported, cfPc, cfResp, filled, procVars, mergeVars,
                   resolveVars, filterVars, pipeVars, bboxVars, apiVars>>

\* GET /api/v1/process/status/{job_id}: a job that is processing is
\* completed when the document is ready with a fillable PDF and failed when
\* the document is failed; the job's status is returned
GetJobStatus ==
    /\ jStatus # "none"
    /\ jStatus' =
          IF jStatus = "processing" /\ status = "ready" /\ filled
            THEN "completed"
          ELSE IF jStatus = "processing" /\ status = "failed"
            THEN "failed"
          ELSE jStatus
    /\ jReported' = jStatus'
    /\ UNCHANGED <<bgPc, cfPc, cfResp, filled, procVars, mergeVars,
                   resolveVars, filterVars, pipeVars, bboxVars, apiVars>>

JobNext ==
    \/ ProcessCommonforms
    \/ \E configured \in BOOLEAN : BgStart(configured)
    \/ CfSetProcessing
    \/ CfFails
    \/ CfCommitReady
    \/ \E signed \in BOOLEAN : CfRespond(signed)
    \/ BgReceive
    \/ BgRaises
    \/ GetJobStatus

JobSpec == JobInit /\ [][JobNext]_vars

\* ------------------------------------------------------------------------
\* Properties of the processor (Spec)
\* ------------------------------------------------------------------------

\* positions between the commit of `processing` and the end of the run
Owning == {"tmpfile", "pipeline", "pagecount", "save", "ready",
           "download", "extract", "commit", "usage"}

\* the step whose exception an invocation carries: the one its handler
\* recorded, or the commit that is failing now
FailedStep(w) == IF pc[w] = "markfailed" THEN err[w] ELSE pc[w]

\* the invocation leaves through the handler's raise
ExitsRaising(w) ==
    pc[w] # "done" /\ pc'[w] = "done" /\ result'[w] = "raised"

Quiescent == \A w \in Workers : pc[w] \in {"idle", "done"}

\* C1: of the invocations running at the same time on the document, at most
\* one gets past the transition to `processing`; the others become no-ops.
C1_AtMostOneClaims ==
    Cardinality({w \in Workers : pc[w] \in Owning}) <= 1

C3_FailedWriteRolledBack ==
    [][\A w \in Workers :
          ( /\ ExitsRaising(w)
            /\ FailedStep(w) \in {"save", "ready", "commit"} )
          => /\ Rows(w) \cap field_regions' = {}
             /\ status' = "failed"]_vars

\* C4: a run in which a step raised, and which raises the error to its
\* caller, exits with the document `failed` and the error's kind and message
\* in error_message.
C4_ErrorMarksFailed ==
    [][\A w \in Workers :
          ExitsRaising(w)
          => /\ status' = "failed"
             /\ error_message' = ErrorText(FailedStep(w))]_vars

\* C5: the processor invoked without force on a document whose status is not
\* imported, ready or failed skips: no `processing`, no pipeline, status and
\* FieldRegions unchanged.
C5_NotProcessableSkipped ==
    [][\A w \in Workers :
          ( /\ pc[w] = "check"
            /\ ~force[w]
            /\ status \notin Processable
            /\ pc'[w] # pc[w] )
          => /\ result'[w] = "skipped"
             /\ status' = status
             /\ field_regions' = field_regions]_vars

\* C6: the temporary file of an invocation is gone when the invocation has
\* exited, whether it returned or raised.
C6_TempFileDeletedOnExit ==
    \A w \in Workers : pc[w] = "done" => ~tmp_exists[w]

\* C6 witness: one invocation returned and the other raised from a step
\* inside the try that owns the file (the error its handler recorded), and
\* neither file is left
C6_Witness ==
    \E v, w \in Workers :
        /\ pc[v] = "done" /\ result[v] = "success" /\ ~tmp_exists[v]
        /\ pc[w] = "done" /\ result[w] = "raised" /\ ~tmp_exists[w]
        /\ status = "failed" /\ error_message = "step error"

C23_TerminatedNotProcessing ==
    [][\A w \in Workers :
          ( /\ pc[w] # "done" /\ pc'[w] = "done"
            /\ FailedStep(w) \in Owning
            /\ \A v \in Workers \ {w} : pc[v] = "idle" )
          => status' \in {"ready", "failed"}]_vars

Downloaded == {"pipeline", "pagecount", "save", "ready"}

\* C26: in a run with force the existing FieldRegions are deleted after the
\* transition to `processing` and the download of the original PDF, and
\* before the pipeline runs; never before the download has succeeded.
C26_ForceDeletesAfterDownload ==
    [][\A w \in Workers :
          ( /\ kind[w] = "hybrid" /\ force[w]
            /\ pc'[w] # pc[w]
            /\ field_regions \ field_regions' # {} )
          => /\ status = "processing"
             /\ pc[w] \in Downloaded]_vars

\* ------------------------------------------------------------------------
\* Properties of the merger (MergeSpec)
\* ------------------------------------------------------------------------

\* round(v, 4) of a value counted in 1/100000: to the nearest 1/10000, an
\* exact tie to the even neighbour
Round4(v) ==
    LET q == v \div 10
        r == v % 10
    IN  IF r < 5 THEN q
        ELSE IF r > 5 THEN q + 1
        ELSE IF q % 2 = 0 THEN q ELSE q + 1

BBoxKey(d) ==
    <<d.page_index, Round4(d.bbox.x), Round4(d.bbox.y),
      Round4(d.bbox.width), Round4(d.bbox.height)>>

\* one detection per source, all three on one page with one bbox
SameBoxFromEachSource ==
    /\ Len(mIn.structure) = 1 /\ Len(mIn.geometric) = 1 /\ Len(mIn.vision) = 1
    /\ mIn.geometric[1].bbox = mIn.structure[1].bbox
    /\ mIn.vision[1].bbox = mIn.structure[1].bbox
    /\ mIn.geometric[1].page_index = mIn.structure[1].page_index
    /\ mIn.vision[1].page_index = mIn.structure[1].page_index

\* C8: merging one STRUCTURE, one GEOMETRIC and one VISION detection of the
\* same bbox and page returns exactly one detection, of source STRUCTURE.
C8_StructureWins ==
    (mPhase = "done" /\ SameBoxFromEachSource)
    => /\ ~mOut.raised
       /\ Len(mOut.value) = 1
       /\ mOut.value[1].source = "structure"

\* C9: every merge returns a list in which no two detections of the same
\* page have the same (x, y, width, height) rounded to 4 decimals.
C9_NoDuplicatesAfterMerge ==
    mPhase = "done"
    => /\ ~mOut.raised
       /\ \A i, j \in 1..Len(mOut.value) :
             i < j => BBoxKey(mOut.value[i]) # BBoxKey(mOut.value[j])

\* the ranks that test_detection_source_priority_order asserts
AssertedRank(source) ==
    CASE source = "structure" -> 1
      [] source = "geometric" -> 2
      [] source = "vision"    -> 3
      [] source = "acroform"  -> 4
      [] source = "merged"    -> 5

\* C10: the priority ranks are STRUCTURE 1, GEOMETRIC 2, VISION 3,
\* ACROFORM 4, MERGED 5 (a lower rank is a higher priority), so every
\* detection handed to the merger is ranked by them.
C10_PriorityRanks ==
    /\ mPhase \in {"input", "done"}
       => \A s \in DetectionSources : Priority(s) = AssertedRank(s)

\* the merged list is in the order of _sort_detections' key
IsPositionSorted(dets) ==
    \A i, j \in 1..Len(dets) : i < j => ~PositionBefore(dets[j], dets[i])

\* C11: for every input, merge returns a list sorted by page_index
\* ascending, then y + height descending, then x ascending.
C11_MergeOutputSorted ==
    mPhase = "done"
    => /\ ~mOut.raised
       /\ IsPositionSorted(mOut.value)

\* intersection over union above the merger's threshold, the areas counted
\* in 1/10^8 of the page
IouAboveThreshold(a, b) ==
    LET intersection == IntersectionArea(a, b)
        union == Area(a) + Area(b) - intersection
    IN  (intersection \div 100) * 100 > IouThreshold * (union \div 100)

\* the detections handed to merge, in the order merge visits them
Candidates ==
    StableSort(mIn.structure \o mIn.geometric \o mIn.vision, "priority")

\* C12: of two candidates the second is kept as its own output detection
\* if and only if it is on another page than the first or their IoU is not
\* above the threshold; detections of different pages are never
\* deduplicated against each other.
C12_KeptIffNoOverlapOnPage ==
    (mPhase = "done" /\ Len(Candidates) = 2)
    => /\ ~mOut.raised
       /\ Len(mOut.value) =
              IF \/ Candidates[1].page_index # Candidates[2].page_index
                 \/ ~IouAboveThreshold(Candidates[2].bbox, Candidates[1].bbox)
                THEN 2 ELSE 1

\* ------------------------------------------------------------------------
\* Properties of conflict resolution (ResolveSpec)
\* ------------------------------------------------------------------------

\* str.strip() leaves nothing: the label is empty or blanks only
IsBlank(label) == \A i \in 1..Len(label) : label[i] = " "

\* generic as the label rule states it: blank, or a placeholder pattern
\* followed by an integer
StatedGeneric(label) ==
    \/ IsBlank(label)
    \/ \E pattern \in GenericPatterns :
          /\ StartsWith(label, pattern)
          /\ IsDigit(SubSeq(label, Len(pattern) + 1, Len(label)))

\* C19: the kept detection takes the absorbed candidate's label when its
\* own label is generic (a placeholder with its number, empty, or blanks
\* only) and the candidate's is not; in every other case it keeps its label.
C19_LabelInheritance ==
    rPhase = "done"
    => rOut.label =
          IF StatedGeneric(rIn.higher.label) /\ ~StatedGeneric(rIn.lower.label)
            THEN rIn.lower.label
            ELSE rIn.higher.label

\* checkbox-sized as the type rule states it
StatedCheckboxSized(bbox) ==
    /\ bbox.width <= 5000
    /\ bbox.height <= 5000
    /\ bbox.height > 0
    /\ 2 * bbox.width >= bbox.height
    /\ bbox.width <= 2 * bbox.height

Identity(d) == <<d.bbox, d.page_index, d.source, d.template_key>>

C16_ThresholdOneKeepsAll ==
    (fPhase = "done" /\ fIn.threshold = 100) => fOut = fIn.fields

\* no page of a field has a text region
NoTextOnFieldPages ==
    \A i \in 1..Len(fIn.fields) :
        TextRegionsOn(fIn.text.regions, fIn.fields[i].page_index) = <<>>

\* C17: for every overlap_threshold in [0, 1] filter_fields returns its
\* input list when the fields' pages have no text regions.
C17_NoTextIsIdentity ==
    ( /\ fPhase = "done"
      /\ fIn.threshold >= 0 /\ fIn.threshold <= 100
      /\ NoTextOnFieldPages )
    => fOut = fIn.fields

\* ------------------------------------------------------------------------
\* Properties of the pipeline orchestrator (PipelineSpec)
\* ------------------------------------------------------------------------

\* the detections of the page calls that returned, in page order
RECURSIVE ReturnedByPages(_)
ReturnedByPages(outcomes) ==
    IF outcomes = <<>> THEN <<>>
    ELSE FieldsOrEmpty(Head(outcomes)) \o ReturnedByPages(Tail(outcomes))

\* the list each detector produced: empty for a call that raised and for a
\* detector that is not set
Produced ==
    [structure |-> FieldsOrEmpty(pCalls.structure),
     geometric |-> ReturnedByPages(pCalls.pages),
     vision |-> FieldsOrEmpty(pCalls.vision)]

\* the detectors one of whose calls raised
FailedDetectors ==
    {d \in {"structure", "vision"} : pCalls[d].state = "raised"}
    \cup {d \in {"geometric"} :
             \/ pCalls.render = "raised"
             \/ \E i \in 1..Len(pCalls.pages) : pCalls.pages[i].state = "raised"}

\* C13: when one detector raised, detect_fields_for_pdf raises nothing and
\* returns what the merger returns for the other detectors' lists and
\* nothing for the calls that raised.
C13_DetectorFailureIsEmptyList ==
    (pPhase = "done" /\ Cardinality(FailedDetectors) = 1)
    => /\ ~pOut.raised
       /\ pOut = Merge(Produced.structure, Produced.geometric,
                        Produced.vision)

\* every detector call of the run has returned, raised or been skipped
AllDetectorsDone ==
    /\ pCalls.structure.state # "pending"
    /\ \/ pCalls.render = "raised"
       \/ pCalls.render = "returned" /\ Len(pCalls.pages) = MaxPage + 1
    /\ pCalls.vision.state # "pending"

\* C14: the merger is called exactly once in a run, after every detector
\* call has returned or failed, with the three lists the detectors produced.
C14_MergerCalledOnceAfterAll ==
    /\ pPhase \in {"structure", "render", "page", "vision", "merge"}
          => pMerges = 0
    /\ pPhase = "done"
          => /\ pMerges = 1
             /\ AllDetectorsDone
             /\ mIn = Produced

\* C14 witness: a run with a vision detector in which each of the three
\* detectors returned detections and the merger got all of them
C14_Witness ==
    /\ pPhase = "done"
    /\ pPdf.vision_detector
    /\ FailedDetectors = {}
    /\ Len(mIn.structure) > 0 /\ Len(mIn.geometric) > 0 /\ Len(mIn.vision) > 0

\* the geometric pass has gone through the rasters of a PDF that opened
GeometricDone ==
    pPhase \in {"vision", "merge", "done"} /\ pCalls.render = "returned"

\* C27: when rendering or geometric detection fails on a page, the
\* geometric pass still visits every page and returns the detections of
\* every other page, each with the page_index of its PDF page.
C27_OtherPagesStillReturned ==
    GeometricDone
    => /\ Len(pCalls.pages) = MaxPage + 1
       /\ pFields.geometric = ReturnedByPages(pCalls.pages)
       /\ \A i \in 1..Len(pCalls.pages) :
             \A k \in 1..Len(pCalls.pages[i].value) :
                 pCalls.pages[i].value[k].page_index = pCalls.images[i].page

\* C27 witness: the first page failed, in rendering or in detection, and
\* the detection found on the last page is returned with its page_index
C27_Witness ==
    /\ GeometricDone
    /\ \/ pCalls.images[1].kind = "sentinel"
       \/ pCalls.pages[1].state = "raised"
    /\ Len(pFields.geometric) = 1
    /\ pFields.geometric[1].page_index = MaxPage
    /\ pCalls.images[MaxPage + 1].page = MaxPage

\* C15: when rendering fails for the PDF as a whole the run goes no
\* further and ends raising.
C15_RenderFailureIsFatal ==
    (pPhase # "off" /\ pCalls.render = "raised")
    => /\ pPhase \notin {"vision", "merge"}
       /\ pPhase = "done" => (pOut.raised /\ pMerges = 0)

StatedValid(c) ==
    /\ 0 <= c.x /\ c.x <= 100
    /\ 0 <= c.y /\ c.y <= 100
    /\ 0 <= c.width /\ c.width <= 100
    /\ 0 <= c.height /\ c.height <= 100
    /\ c.x + c.width <= 100
    /\ c.y + c.height <= 100
    /\ c.width > 0
    /\ c.height > 0

\* C21: constructing a BBox fails whenever a coordinate invariant is
\* violated: a coordinate outside [0, 1], x + width > 1, y + height > 1, or
\* a width or height that is not above 0.
C21_InvalidBBoxRejected ==
    bPhase \in {"built", "done"}
    => /\ ~StatedValid(bIn.a) => bOut.a.raised
       /\ ~StatedValid(bIn.b) => bOut.b.raised

\* C22: for every pair of BBoxes iou is defined and is the intersection
\* area divided by the union area (the two areas less the intersection),
\* and 0 when the union area is 0.
C22_IouIsIntersectionOverUnion ==
    bPhase = "done"
    => LET intersection == IntersectionArea(bOut.a.value, bOut.b.value)
           union == Area(bOut.a.value) + Area(bOut.b.value) - intersection
       IN  /\ ~bOut.iou.raised
           /\ IF union = 0 THEN bOut.iou.num = 0
              ELSE bOut.iou.num * union = intersection * bOut.iou.den

\* ------------------------------------------------------------------------
\* Properties of the process endpoint (ApiSpec)
\* ------------------------------------------------------------------------

\* C24: after the process endpoint has enqueued the task for an `imported`
\* document, its own write of `processing` never overwrites a status the
\* worker has already written, so the final status is the worker's outcome.
C24_ApiWriteKeepsWorkerStatus ==
    [][(apiPc = "write" /\ apiPc' = "done")
          => status \notin {"ready", "failed"}]_vars

\* ------------------------------------------------------------------------
\* Properties of the CommonForms jobs (JobSpec)
\* ------------------------------------------------------------------------

\* how the processing the job started has ended, if it has
CfOutcome ==
    IF cfPc = "presign" \/ (cfPc = "done" /\ cfResp = "200") THEN "completed"
    ELSE IF cfPc = "done" THEN "failed"
    ELSE "none"

\* C29: the status endpoint comes to report a job `completed` or `failed`
\* only after the processing started by that job has finished with that
\* outcome (or its background call has failed), never from a document
\* status an earlier run left.
C29_ReportedAfterOwnProcessing ==
    [][(jReported' # jReported /\ jReported' \in {"completed", "failed"})
          => \/ CfOutcome = jReported'
             \/ jReported' = "failed" /\ bgPc = "failed"]_vars

\* C30: a job's status only moves from queued to processing and from
\* processing to completed or failed; once it is completed or failed no
\* status poll and no background completion changes it.
C30_JobStatusIsFinal ==
    [][jStatus' # jStatus
          => \/ jStatus = "none" /\ jStatus' = "processing"
             \/ jStatus = "processing"
                   /\ jStatus' \in {"completed", "failed"}]_vars

====
